---- MODULE Spec2Model ----
(***************************************************************************)
(* Model of the ServerBond agent's site deployment pipeline.               *)
(*                                                                         *)
(* Two entry programs exist in the repository: agent.py (the MVP, whose    *)
(* /build only creates a directory from templates) and agent_new.py (the   *)
(* modular agent, whose /build and /redeploy call modules/site_builder).   *)
(* The variable `entry` says which of the two is running.                  *)
(*                                                                         *)
(* agent_new.py serves /build and /redeploy as coroutines on one asyncio   *)
(* event loop.  Every external command of the pipeline is a blocking       *)
(* subprocess.run, so a request keeps the loop from its first statement to *)
(* its last, except inside provision_mysql, whose two awaits               *)
(* (create_subprocess_shell, communicate) suspend the coroutine and let    *)
(* another request run.  The variable `loop` is the request that holds the *)
(* event loop.                                                             *)
(*                                                                         *)
(* Strings whose characters matter (domains, database identifiers) are     *)
(* sequences of one-character strings.                                     *)
(*                                                                         *)
(* The model starts from a loaded application: it describes what the       *)
(* handlers do once the modules have been imported.                        *)
(*                                                                         *)
(* The start, stop and delete handlers of agent_new.py are plain           *)
(* functions, which FastAPI runs in worker threads: their steps interleave *)
(* with everything else.  The variable `op` is the one such request in     *)
(* progress.  Those of agent.py are coroutines without an await.           *)
(*                                                                         *)
(* Four specifications:                                                    *)
(*   Spec        requests to either program for one site name;             *)
(*   SharedSpec  builds of two sites that pass the same database           *)
(*               credentials to the modular agent;                         *)
(*   CallsSpec   the framework detectors and sanitize_filename, each       *)
(*               called once on an argument drawn from a bounded set.      *)
(*   SitesSpec   builds and redeploys of one domain together with start,   *)
(*               stop and delete requests for its site.                    *)
(***************************************************************************)
EXTENDS Integers, Sequences, FiniteSets, TLC

\* ------------------------------------------------------------------ bounds
NumTasks == 2
MaxRuns == 3
MaxIdent == 3

Tasks == 1..NumTasks
NoTask == 0
None == "None"

\* ------------------------------------------------------------ string model
s_demo == <<"d", "e", "m", "o">>
s_dot == <<".">>
s_com == <<"c", "o", "m">>
s_org == <<"o", "r", "g">>
s_db == <<"_", "d", "b">>
s_user == <<"_", "u", "s", "e", "r">>
s_secret == <<"s", "e", "c", "r", "e", "t">>
s_root == <<"r", "o", "o", "t">>
s_custom == <<"x", "/", "y">>
s_pw == <<"p", "w">>
s_shop == <<"s", "h", "o", "p">>

Domains == {s_demo \o s_dot \o s_com, s_demo \o s_dot \o s_org}

\* two sites with different names, for the runs that share database
\* credentials
SharedDomains == {s_demo \o s_dot \o s_com, s_shop \o s_dot \o s_com}

\* str.split(".")[0]: the characters before the first dot
RECURSIVE Split0(_)
Split0(s) ==
    IF s = <<>> \/ Head(s) = "." THEN <<>> ELSE <<Head(s)>> \o Split0(Tail(s))

\* SecurityValidator.sanitize_filename: replace each dangerous substring, in
\* the order of the list, by "_"; then keep the first 100 characters
MaxFilenameLen == 100

RECURSIVE ReplaceDotDot(_)
ReplaceDotDot(s) ==
    IF Len(s) < 2 THEN s
    ELSE IF s[1] = "." /\ s[2] = "." THEN <<"_">> \o ReplaceDotDot(SubSeq(s, 3, Len(s)))
    ELSE <<s[1]>> \o ReplaceDotDot(Tail(s))

DangerousChars == {"/", "\\", ":", "*", "?", "\"", "<", ">", "|"}

sanitize_filename(filename) ==
    LET a == ReplaceDotDot(filename)
        b == [i \in 1..Len(a) |-> IF a[i] \in DangerousChars THEN "_" ELSE a[i]]
    IN  SubSeq(b, 1, IF Len(b) < MaxFilenameLen THEN Len(b) ELSE MaxFilenameLen)

\* Python truthiness of a string argument, and "x or default"
Truthy(s) == s # <<>>
Or(x, default) == IF Truthy(x) THEN x ELSE default

\* ------------------------------------------------------------ configuration
\* CONFIG["php_versions"] comes from config.json, which is data and not among
\* the Python sources; its keys are taken to be the versions that
\* SecurityValidator.validate_php_version lists.
valid_frameworks == {"laravel", "laravel-inertia", "nextjs", "nuxt", "nodeapi", "static"}
php_versions == {"8.0", "8.1", "8.2", "8.3", "8.4"}
default_php_version == "8.3"

\* ------------------------------------------------------ request validation
\* modules/security.py.  No endpoint of agent_new.py or of modules/api.py
\* calls validate_build_request.
AlphaNum ==
    {"a", "b", "c", "d", "e", "f", "g", "h", "i", "j", "k", "l", "m", "n", "o", "p", "q",
     "r", "s", "t", "u", "v", "w", "x", "y", "z", "A", "B", "C", "D", "E", "F", "G", "H",
     "I", "J", "K", "L", "M", "N", "O", "P", "Q", "R", "S", "T", "U", "V", "W", "X", "Y",
     "Z", "0", "1", "2", "3", "4", "5", "6", "7", "8", "9"}
MaxDomainLen == 253
MaxLabelInner == 61

\* the domain pattern: labels separated by dots, each label starting and
\* ending with a letter or digit, with at most 61 letters, digits or hyphens
\* in between
validate_domain(domain) ==
    /\ domain # <<>>
    /\ Len(domain) <= MaxDomainLen
    /\ \A i \in 1..Len(domain) : domain[i] \in AlphaNum \cup {"-", "."}
    /\ domain[1] \in AlphaNum /\ domain[Len(domain)] \in AlphaNum
    /\ \A i \in 2..(Len(domain) - 1) :
          domain[i] = "." => domain[i - 1] \in AlphaNum /\ domain[i + 1] \in AlphaNum
    /\ \A i \in 1..Len(domain) :
          i + MaxLabelInner + 2 <= Len(domain)
              => \E k \in i..(i + MaxLabelInner + 2) : domain[k] = "."

\* urlparse of the repository URLs of the model
RepoUrl(repo) == [scheme |-> "https", netloc |-> "github.com"]
allowed_hosts == {"github.com", "gitlab.com", "bitbucket.org", "git.sr.ht", "codeberg.org"}
validate_repo_url(repo) ==
    RepoUrl(repo).scheme \in {"http", "https", "git"} /\ RepoUrl(repo).netloc \in allowed_hosts

validate_php_version(version) == version \in {"8.0", "8.1", "8.2", "8.3", "8.4"}
validate_framework(framework) == framework \in valid_frameworks

\* validate_build_request: TRUE when it raises no HTTPException(400)
validate_build_request(data) ==
    /\ validate_repo_url(data.repo)
    /\ Truthy(data.domain) /\ validate_domain(data.domain)
    /\ data.framework # None => validate_framework(data.framework)
    /\ data.php_version # None => validate_php_version(data.php_version)

\* ------------------------------------------------------- framework detector
\* What a checked-out tree looks like to detect_framework.
Manifest(is_dir, composer, package, index) ==
    [is_dir |-> is_dir, composer |-> composer, package |-> package, index |-> index]

NoFile == [exists |-> FALSE, readable |-> FALSE, words |-> {}]
File(words) == [exists |-> TRUE, readable |-> TRUE, words |-> words]

Repos == {"repo_laravel", "repo_blank"}

\* the tree a repository checks out to
RepoManifest(src) ==
    CASE src = "repo_laravel" -> Manifest(TRUE, File({"laravel/framework"}), NoFile, FALSE)
      [] OTHER -> Manifest(TRUE, NoFile, NoFile, FALSE)

\* `needle in content`: a manifest's text is given by the dependency names
\* in it, and a name contains a needle when it is the needle or has it inside
Inside == {<<"next", "next-auth">>}
In(needle, file) == \E w \in file.words : w = needle \/ <<needle, w>> \in Inside

\* read_text succeeds on the manifest
Reads(file) == file.exists /\ file.readable

\* modules/utils.py
detect_framework(m) ==
    IF ~m.is_dir THEN "unknown"
    ELSE IF Reads(m.composer) /\ In("laravel/framework", m.composer)
         THEN IF In("inertiajs/inertia", m.composer) THEN "laravel-inertia" ELSE "laravel"
    ELSE IF Reads(m.package) /\ In("next", m.package) THEN "nextjs"
    ELSE IF Reads(m.package) /\ In("nuxt", m.package) THEN "nuxt"
    ELSE IF Reads(m.package) /\ (In("express", m.package) \/ In("fastify", m.package))
         THEN "nodeapi"
    ELSE IF m.index THEN "static"
    ELSE "unknown"

\* agent.py: the detector of the MVP, used by its site listing and status
\* endpoints; json.load raises on a package.json it cannot read or parse, and
\* `"next" in dependencies` tests the keys of the dependencies object
Raises == "raises"
mvp_detect_framework(m) ==
    IF m.composer.exists THEN "laravel"
    ELSE IF m.package.exists
         THEN IF ~m.package.readable THEN Raises
              ELSE IF "next" \in m.package.words THEN "nextjs"
              ELSE IF "nuxt" \in m.package.words THEN "nuxt"
              ELSE "nodeapi"
    ELSE IF m.index THEN "static"
    ELSE "unknown"

\* ------------------------------------------------------------------- state
VARIABLES
    entry,            \* which program serves the API: "agent" or "agent_new"
    MYSQL_ROOT_PASS,  \* administrative credential read at startup
    fs,               \* site name -> directory under BASE_DIR
    ctr,              \* site name -> state of the compose project of that name
    db,               \* schemas and users of the shared database service
    tasks,            \* request slot -> the request being served in it
    loop,             \* the request that holds the event loop (NoTask: none)
    nsecret,          \* number of secrets.token_urlsafe values drawn so far
    runs,             \* number of requests accepted so far
    built,            \* history: the domains (agent.py: the names) a build has reported deployed
    call,             \* a function of the modules called on its own: name, argument, result
    op                \* the latest start, stop or delete request and how far it has got

vars == <<call, op, entry, MYSQL_ROOT_PASS, fs, ctr, db, tasks, loop, nsecret, runs, built>>

AGENT_TOKEN == "tok"
Tokens == {"tok", "bad"}

Names == {Split0(d) : d \in Domains \cup SharedDomains}

\* files of a site directory: the checked-out source, the .env written by
\* setup_laravel_site and the files render_site_templates writes (among them
\* docker-compose.yml).  key = 0: the file is absent.
NoEnv == [key |-> 0, db_name |-> <<>>, db_user |-> <<>>, db_password |-> <<>>]
NoTpl == [key |-> 0, framework |-> None, php_version |-> None,
          db_name |-> <<>>, db_user |-> <<>>, db_password |-> <<>>]
NoDir == [exists |-> FALSE, src |-> "empty", env |-> NoEnv, tpl |-> NoTpl, compose |-> FALSE]
EmptyDir == [NoDir EXCEPT !.exists = TRUE]

\* app_dir.exists()
SiteExistsAlways(d) == TRUE
SiteExists(d) == d.exists

NonEmpty(d) == d.src # "empty" \/ d.env.key # 0 \/ d.tpl.key # 0 \/ d.compose
HasCompose(d) == d.compose

\* request schemas (pydantic drops the fields of a body that the schema lacks)
BuildRequest == {"repo", "domain", "framework", "php_version", "db_name", "db_user", "db_pass"}
RedeployRequestWithBuildFields == BuildRequest
RedeployRequest == {"domain"}

Parse(schema, body) == [f \in schema |-> body[f]]
HasAttr(req, f) == f \in DOMAIN req

FrameworkInputs == {None, "nextjs", "django"}
PhpInputs == {None, "7.4"}
DbInputs == {<<>>, s_custom}

Bodies ==
    {[repo |-> r, domain |-> d, framework |-> f, php_version |-> p,
      db_name |-> n, db_user |-> n, db_pass |-> IF n = <<>> THEN <<>> ELSE s_pw] :
        r \in Repos, d \in Domains, f \in FrameworkInputs, p \in PhpInputs, n \in DbInputs}

\* a call: the function, its argument, whether it has returned and what
Pending == "pending"
NoCall == [fn |-> "none", arg |-> <<>>, returned |-> FALSE, ret |-> Pending]

\* A start, stop or delete request: the site name of the path, the token
\* presented, the status of the response (0: none sent yet), the commands and
\* file-system changes executed with their outcomes.
NoOp == [kind |-> "none", name |-> <<>>, token |-> None, pc |-> "idle", code |-> 0,
         status |-> "none", log |-> <<>>]

\* A request slot.  code is the status of the HTTP response (0: none sent
\* yet); log lists the steps executed with their outcomes.  History fields:
\* existed (the site directory existed when the request arrived), prov (what
\* provision_mysql returned), seen (what get_container_status answered to
\* it), present (its schema and user were there before its command ran).
\* child says whether the administrative command the request has spawned
\* is one that exits.
IdleTask == [mode |-> "none", req |-> [domain |-> <<>>], app_name |-> <<>>, pc |-> "idle",
             log |-> <<>>, status |-> "idle", error |-> "none", code |-> 0,
             existed |-> FALSE, prov |-> "none", seen |-> "none", present |-> FALSE,
             child |-> "none"]

Init ==
    /\ entry \in {"agent", "agent_new"}
    /\ MYSQL_ROOT_PASS \in {s_root, <<>>}
    /\ fs = [n \in Names |-> NoDir]
    /\ ctr = [n \in Names |-> "none"]
    /\ db = [schemas |-> {}, users |-> {}]
    /\ tasks = [t \in Tasks |-> IdleTask]
    /\ loop = NoTask
    /\ nsecret = 0
    /\ runs = 0
    /\ built = {}
    /\ call = NoCall
    /\ op = NoOp

\* ----------------------------------------------------------------- helpers
\* api.protect: a request passes when no token is configured or it matches
protect(token, agent_token) == ~(agent_token # None /\ token # agent_token)

At(t, pc) == loop = t /\ tasks[t].pc = pc

\* the request goes on to the step at pc, having logged <<step, out>>
Goto(t, pc, step, out) ==
    tasks' = [tasks EXCEPT ![t] = [@ EXCEPT !.pc = pc, !.log = Append(@, <<step, out>>)]]

\* an exception leaves the pipeline: log line, re-raise, HTTPException(500);
\* the handler keeps the loop until its response is sent (Return)
Raise(t, step, out, err) ==
    /\ tasks' = [tasks EXCEPT ![t] = [@ EXCEPT !.pc = "done", !.status = "failed",
                     !.error = err, !.code = 500, !.log = Append(@, <<step, out>>)]]
    /\ loop' = t

\* requests are served in the lowest free slot
FreeSlot(t) == tasks[t].pc = "idle" /\ \A u \in Tasks : u < t => tasks[u].pc # "idle"

CmdOutcomes == {"ok", "fail", "timeout"}
WriteOutcomes == {"ok", "fail"}

\* ------------------------------------------------- agent_new.py: POST /build
\* build_site_endpoint up to the first external command: protect, then
\* build_site computes app_name and app_dir and calls mkdir(exist_ok=True)
BuildBegin(t, body, token) ==
    /\ entry = "agent_new"
    /\ loop = NoTask
    /\ FreeSlot(t)
    /\ runs < MaxRuns
    /\ runs' = runs + 1
    /\ LET req == Parse(BuildRequest, body)
           app_name == Split0(req.domain)
           started == [IdleTask EXCEPT !.mode = "build", !.req = req, !.app_name = app_name,
                          !.existed = fs[app_name].exists]
       IN  IF ~protect(token, AGENT_TOKEN)
           THEN /\ tasks' = [tasks EXCEPT ![t] = [started EXCEPT !.pc = "done",
                                 !.status = "failed", !.error = "unauthorized", !.code = 401]]
                /\ UNCHANGED fs
           ELSE /\ tasks' = [tasks EXCEPT ![t] = [started EXCEPT !.pc = "clone",
                                 !.status = "running", !.log = <<<<"mkdir", "ok">>>>]]
                /\ fs' = [fs EXCEPT ![app_name].exists = TRUE]
    /\ loop' = t
    /\ UNCHANGED <<call, op, entry, MYSQL_ROOT_PASS, ctr, db, nsecret, built>>

\* git clone <repo> <app_dir>, timeout 60: git refuses a directory that is
\* not empty; a clone killed by the timeout may leave a partial tree
BuildClone(t) ==
    /\ At(t, "clone")
    /\ LET n == tasks[t].app_name IN
       \E out \in CmdOutcomes :
          /\ NonEmpty(fs[n]) => out = "fail"
          /\ CASE out = "ok" ->
                    /\ fs' = [fs EXCEPT ![n].src = tasks[t].req.repo]
                    /\ Goto(t, "detect", "clone", "ok")
                    /\ UNCHANGED loop
               [] out = "fail" ->
                    /\ Raise(t, "clone", "fail", "clone_failed")
                    /\ UNCHANGED fs
               [] out = "timeout" ->
                    /\ \E left \in {"empty", "partial"} : fs' = [fs EXCEPT ![n].src = left]
                    /\ Raise(t, "clone", "timeout", "timeout")
    /\ UNCHANGED <<call, op, entry, MYSQL_ROOT_PASS, ctr, db, nsecret, runs, built>>

\* the detection results build_site refuses to go on with
AbortsOnNothing(found) == FALSE
AbortsOn(found) == found = "unknown"

\* framework resolution: an override is kept; otherwise detect_framework
\* decides and "unknown" aborts
BuildDetect(t) ==
    /\ At(t, "detect")
    /\ LET req == tasks[t].req
           found == detect_framework(RepoManifest(fs[tasks[t].app_name].src))
       IN  IF req.framework # None
           THEN Goto(t, "setup", "resolve", "override") /\ UNCHANGED loop
           ELSE IF AbortsOn(found)
           THEN Raise(t, "resolve", found, "unknown_framework")
           ELSE /\ tasks' = [tasks EXCEPT ![t] = [@ EXCEPT !.pc = "setup",
                                 !.req = [@ EXCEPT !.framework = found],
                                 !.log = Append(@, <<"resolve", found>>)]]
                /\ UNCHANGED loop
    /\ UNCHANGED <<call, op, entry, MYSQL_ROOT_PASS, fs, ctr, db, nsecret, runs, built>>

\* "Framework-specific setup": the branch build_site takes for a framework;
\* whatever the branch, render_site_templates follows it
SetupBranchSkipsRender(f) ==
    IF f \in {"laravel", "laravel-inertia"} THEN "provision"
    ELSE IF f \in {"nextjs", "nuxt", "nodeapi"} THEN "install"
    ELSE "up"
SetupBranch(f) ==
    IF f \in {"laravel", "laravel-inertia"} THEN "provision"
    ELSE IF f \in {"nextjs", "nuxt", "nodeapi"} THEN "install"
    ELSE "render"

BuildSetup(t) ==
    /\ At(t, "setup")
    /\ tasks' = [tasks EXCEPT ![t].pc = SetupBranch(tasks[t].req.framework)]
    /\ UNCHANGED <<call, op, entry, MYSQL_ROOT_PASS, fs, ctr, db, loop, nsecret, runs, built>>

\* credentials setup_laravel_site and render_site_templates derive
DbName(req, app_name) == Or(req.db_name, app_name \o s_db)
DbUser(req, app_name) == Or(req.db_user, app_name \o s_user)
DbPass(req) == Or(req.db_pass, s_secret)

StatusOutcomes == {"running", "exited"}

\* the test provision_mysql makes on what get_container_status answered
IsRunningAnyStatus(status) == TRUE
IsRunning(status) == status = "running"

\* provision_mysql up to its first await: argument check, sanitization,
\* status of the shared database container, create_subprocess_shell.
\* Its return value is dropped by setup_laravel_site.
ProvisionCall(t) ==
    /\ At(t, "provision")
    /\ \E container_status \in StatusOutcomes :
          IF ~Truthy(MYSQL_ROOT_PASS)
          THEN /\ tasks' = [tasks EXCEPT ![t] = [@ EXCEPT !.pc = "env", !.prov = "false",
                                !.log = Append(@, <<"provision", "missing">>)]]
               /\ UNCHANGED loop
          ELSE IF ~IsRunning(container_status)
          THEN /\ tasks' = [tasks EXCEPT ![t] = [@ EXCEPT !.pc = "env", !.prov = "false",
                                !.seen = container_status,
                                !.log = Append(@, <<"provision", "not_running">>)]]
               /\ UNCHANGED loop
          ELSE /\ tasks' = [tasks EXCEPT ![t] = [@ EXCEPT !.pc = "spawn",
                                !.seen = container_status]]
               /\ loop' = NoTask
    /\ UNCHANGED <<call, op, entry, MYSQL_ROOT_PASS, fs, ctr, db, nsecret, runs, built>>

\* what becomes of a spawned command: it exits, or it never returns
\* (a client that waits on a server that does not answer)
ChildFates == {"exits", "never"}

\* the subprocess exists; the coroutine resumes and suspends again in
\* proc.communicate, which is awaited without a timeout
ProvisionSpawned(t) ==
    /\ loop = NoTask
    /\ tasks[t].pc = "spawn"
    /\ \E fate \in ChildFates :
          tasks' = [tasks EXCEPT ![t] = [@ EXCEPT !.pc = "communicate", !.child = fate]]
    /\ UNCHANGED <<call, op, entry, MYSQL_ROOT_PASS, fs, ctr, db, loop, nsecret, runs, built>>

\* the shared database: schema names, and users as <<name, password>>
HasUser(d, db_user) == \E u \in d.users : u[1] = db_user

\* whether CREATE DATABASE / CREATE USER is an error on an object that is
\* present: not with IF NOT EXISTS
CreateFailsOnPresent(present) == present
CreateFails(present) == FALSE

\* the statements of the administrative command, executed in order
ExecSql(d, db_name, db_user, db_pass) ==
    [error |-> CreateFails(db_name \in d.schemas) \/ CreateFails(HasUser(d, db_user)),
     db |-> [schemas |-> d.schemas \cup {db_name},
             users |-> IF HasUser(d, db_user) THEN d.users
                       ELSE d.users \cup {<<db_user, db_pass>>}]]

\* the administrative command has exited: non-zero when the client could
\* not connect or a statement failed, else the statements have been executed
\* for the sanitized schema and user
ProvisionDone(t) ==
    /\ loop = NoTask
    /\ tasks[t].pc = "communicate"
    /\ tasks[t].child = "exits"
    /\ LET req == tasks[t].req
           db_name == sanitize_filename(DbName(req, tasks[t].app_name))
           db_user == sanitize_filename(DbUser(req, tasks[t].app_name))
           sql == ExecSql(db, db_name, db_user, DbPass(req))
       IN  \E connected \in BOOLEAN :
             LET returncode == IF connected /\ ~sql.error THEN 0 ELSE 1 IN
             /\ db' = IF returncode = 0 THEN sql.db ELSE db
             /\ tasks' = [tasks EXCEPT ![t] = [@ EXCEPT !.pc = "env",
                              !.prov = IF returncode = 0 THEN "true" ELSE "false",
                              !.present = db_name \in db.schemas
                                            /\ <<db_user, DbPass(req)>> \in db.users,
                              !.log = Append(@, <<"provision",
                                          IF returncode = 0 THEN "ok"
                                          ELSE IF connected THEN "sql_error" ELSE "fail">>)]]
    /\ loop' = t
    /\ UNCHANGED <<call, op, entry, MYSQL_ROOT_PASS, fs, ctr, nsecret, runs, built>>

\* generate_laravel_env draws an APP_KEY; write_file reports a failed write
\* by returning False, which setup_laravel_site does not look at
SetupLaravelEnv(t) ==
    /\ At(t, "env")
    /\ LET req == tasks[t].req
           n == tasks[t].app_name
           env == [key |-> nsecret + 1, db_name |-> DbName(req, n),
                   db_user |-> DbUser(req, n), db_password |-> DbPass(req)]
       IN  \E w \in WriteOutcomes :
             /\ fs' = IF w = "ok" THEN [fs EXCEPT ![n].env = env] ELSE fs
             /\ Goto(t, "install", "write_env", w)
    /\ nsecret' = nsecret + 1
    /\ UNCHANGED <<call, op, entry, MYSQL_ROOT_PASS, ctr, db, loop, runs, built>>

\* composer install / npm install through subprocess.run(timeout=300): a
\* non-zero exit is logged as a warning, TimeoutExpired is not caught
BuildInstall(t) ==
    /\ At(t, "install")
    /\ \E out \in CmdOutcomes :
          IF out = "timeout"
          THEN Raise(t, "install", "timeout", "timeout")
          ELSE Goto(t, "render", "install", out) /\ UNCHANGED loop
    /\ UNCHANGED <<call, op, entry, MYSQL_ROOT_PASS, fs, ctr, db, nsecret, runs, built>>

\* attributes of the request that render_site_templates reads (lines 148-167)
RenderAttrs == {"framework", "php_version", "domain", "db_name", "db_user", "db_pass"}

\* a framework has a template directory when it is one of the listed ones;
\* glob over a missing directory yields nothing
HasTemplates(framework) == framework \in valid_frameworks

\* the files a template directory renders to: docker-compose.yml and the
\* rest (fs[n].compose, fs[n].tpl)
TemplateOutputs == {"compose", "tpl"}

\* render_site_templates, called by build_site and by redeploy_site with
\* the request each of them received: every attribute is read before the
\* first file is written, a fresh app_key is drawn on every call.  The loop
\* renders and writes one template after the other, in the order glob yields
\* them: a template that jinja2 cannot load or render raises out of the loop
\* after the files before it have been written, and a write that fails is
\* reported by write_file's return value, which the loop does not look at.
RenderSiteTemplates(t) ==
    /\ At(t, "render")
    /\ LET req == tasks[t].req
           n == tasks[t].app_name
       IN  IF \E a \in RenderAttrs : ~HasAttr(req, a)
           THEN Raise(t, "render", "attribute_error", "attribute_error")
                /\ UNCHANGED <<fs, nsecret, built>>
           ELSE LET php_version == IF req.php_version # None THEN req.php_version
                                   ELSE default_php_version
                    tpl == [key |-> nsecret + 1, framework |-> req.framework,
                            php_version |-> php_version, db_name |-> DbName(req, n),
                            db_user |-> DbUser(req, n), db_password |-> DbPass(req)]
                IN  IF php_version \notin php_versions
                    THEN Raise(t, "render", "unsupported_php", "unsupported_php")
                         /\ UNCHANGED <<fs, nsecret, built>>
                    ELSE IF req.framework = None
                    THEN Raise(t, "render", "type_error", "type_error")
                         /\ nsecret' = nsecret + 1
                         /\ UNCHANGED fs
                    ELSE /\ nsecret' = nsecret + 1
                         /\ IF HasTemplates(req.framework)
                            THEN \E raised \in BOOLEAN, written \in SUBSET TemplateOutputs :
                                   /\ raised => written # TemplateOutputs
                                   /\ fs' = [fs EXCEPT
                                            ![n].tpl = IF "tpl" \in written THEN tpl ELSE @,
                                            ![n].compose = ("compose" \in written) \/ @]
                                   /\ IF raised
                                      THEN Raise(t, "render", "template_error", "template_error")
                                      ELSE /\ Goto(t, "up", "render",
                                                   IF written = TemplateOutputs THEN "ok"
                                                   ELSE "fail")
                                           /\ UNCHANGED loop
                            ELSE /\ UNCHANGED <<fs, loop>>
                                 /\ Goto(t, "up", "render", "nothing")
    /\ UNCHANGED <<call, op, entry, MYSQL_ROOT_PASS, ctr, db, runs, built>>

\* docker compose up -d in app_dir, the last step of both pipelines; a
\* command killed by the timeout may still have started the containers
ComposeUp(t) ==
    /\ At(t, "up")
    /\ LET n == tasks[t].app_name IN
       \E out \in CmdOutcomes :
          /\ ~HasCompose(fs[n]) => out # "ok"
          /\ built' = IF out = "ok" /\ tasks[t].mode = "build"
                       THEN built \cup {tasks[t].req.domain} ELSE built
          /\ IF out = "ok"
             THEN /\ ctr' = [ctr EXCEPT ![n] = "running"]
                  /\ tasks' = [tasks EXCEPT ![t] = [@ EXCEPT !.pc = "done",
                                   !.status = "succeeded", !.code = 200,
                                   !.log = Append(@, <<"up", "ok">>)]]
                  /\ UNCHANGED loop
             ELSE IF out = "fail"
             THEN /\ Raise(t, "up", "fail", "up_failed")
                  /\ UNCHANGED ctr
             ELSE /\ Raise(t, "up", "timeout", "timeout")
                  /\ \E c \in {ctr[n]} \cup (IF HasCompose(fs[n]) THEN {"running"} ELSE {}) :
                        ctr' = [ctr EXCEPT ![n] = c]
    /\ UNCHANGED <<call, op, entry, MYSQL_ROOT_PASS, fs, db, nsecret, runs>>

\* the response has been sent; the slot serves the next request
Return(t) ==
    /\ At(t, "done")
    /\ tasks' = [tasks EXCEPT ![t] = IdleTask]
    /\ loop' = NoTask
    /\ UNCHANGED <<call, op, entry, MYSQL_ROOT_PASS, fs, ctr, db, nsecret, runs, built>>

\* ---------------------------------------------- agent_new.py: POST /redeploy
\* the first command of redeploy_site
RedeployFirstStepSkipsStop == "pull"
RedeployFirstStep == "down"

\* redeploy_site_endpoint up to the first external command
RedeployBegin(t, body, token) ==
    /\ entry = "agent_new"
    /\ loop = NoTask
    /\ FreeSlot(t)
    /\ runs < MaxRuns
    /\ runs' = runs + 1
    /\ LET req == Parse(RedeployRequest, body)
           app_name == Split0(req.domain)
           started == [IdleTask EXCEPT !.mode = "redeploy", !.req = req,
                          !.app_name = app_name, !.existed = fs[app_name].exists]
       IN  IF ~protect(token, AGENT_TOKEN)
           THEN /\ tasks' = [tasks EXCEPT ![t] = [started EXCEPT !.pc = "done",
                                 !.status = "failed", !.error = "unauthorized", !.code = 401]]
           ELSE IF ~SiteExists(fs[app_name])
           THEN /\ tasks' = [tasks EXCEPT ![t] = [started EXCEPT !.pc = "done",
                                 !.status = "failed", !.error = "site_not_found", !.code = 500]]
           ELSE tasks' = [tasks EXCEPT ![t] = [started EXCEPT !.pc = RedeployFirstStep,
                                 !.status = "running"]]
    /\ loop' = t
    /\ UNCHANGED <<call, op, entry, MYSQL_ROOT_PASS, fs, ctr, db, nsecret, built>>

\* docker compose down: the exit code is not looked at, TimeoutExpired is
\* not caught
RedeployDown(t) ==
    /\ At(t, "down")
    /\ LET n == tasks[t].app_name
           stopped == IF ctr[n] = "none" THEN "none" ELSE "stopped"
       IN  \E out \in CmdOutcomes :
             /\ ~HasCompose(fs[n]) => out # "ok"
             /\ CASE out = "ok" ->
                       /\ ctr' = [ctr EXCEPT ![n] = stopped]
                       /\ Goto(t, "pull", "down", "ok")
                       /\ UNCHANGED loop
                  [] out = "fail" ->
                       /\ UNCHANGED <<ctr, loop>>
                       /\ Goto(t, "pull", "down", "fail")
                  [] out = "timeout" ->
                       /\ \E c \in {ctr[n]} \cup (IF HasCompose(fs[n]) THEN {stopped} ELSE {}) :
                             ctr' = [ctr EXCEPT ![n] = c]
                       /\ Raise(t, "down", "timeout", "timeout")
    /\ UNCHANGED <<call, op, entry, MYSQL_ROOT_PASS, fs, db, nsecret, runs, built>>

\* git pull, timeout 60: a non-zero exit is logged as a warning
RedeployPull(t) ==
    /\ At(t, "pull")
    /\ \E out \in CmdOutcomes :
          /\ fs[tasks[t].app_name].src \notin Repos => out # "ok"
          /\ IF out = "timeout"
             THEN Raise(t, "pull", "timeout", "timeout")
             ELSE Goto(t, "render", "pull", out) /\ UNCHANGED loop
    /\ UNCHANGED <<call, op, entry, MYSQL_ROOT_PASS, fs, ctr, db, nsecret, runs, built>>

\* ------------------------------------------------------ agent.py: POST /build
\* the MVP build: refuses an existing directory, otherwise creates it and
\* leaves a docker-compose.yml in it (copied from the templates or written)
MvpBuild(t, site_name) ==
    /\ entry = "agent"
    /\ loop = NoTask
    /\ FreeSlot(t)
    /\ runs < MaxRuns
    /\ runs' = runs + 1
    /\ LET started == [IdleTask EXCEPT !.mode = "build", !.app_name = site_name,
                          !.existed = fs[site_name].exists, !.pc = "done"]
       IN  IF SiteExists(fs[site_name])
           THEN /\ tasks' = [tasks EXCEPT ![t] = [started EXCEPT !.status = "failed",
                                 !.error = "site_exists", !.code = 400]]
                /\ UNCHANGED <<fs, built>>
           ELSE /\ tasks' = [tasks EXCEPT ![t] = [started EXCEPT !.status = "succeeded",
                                 !.code = 200, !.log = <<<<"mkdir", "ok">>, <<"render", "ok">>>>]]
                /\ fs' = [fs EXCEPT ![site_name] = [EmptyDir EXCEPT !.compose = TRUE]]
                /\ built' = built \cup {site_name}
    /\ loop' = t
    /\ UNCHANGED <<call, op, entry, MYSQL_ROOT_PASS, ctr, db, nsecret>>

\* ------------------------------- modules/api.py: start, stop, delete a site
\* The endpoints of agent_new.py are plain functions: FastAPI runs them in
\* worker threads, beside the event loop, so their steps interleave with the
\* steps of a pipeline run.  Each passes the token of the request as the
\* second argument of start_site / stop_site / delete_site, which call
\* protect(agent_token, agent_token).
SiteOps == {"start", "stop", "delete"}
Reported(kind) ==
    CASE kind = "start" -> "started" [] kind = "stop" -> "stopped" [] OTHER -> "deleted"

\* an HTTPException raised inside the handler's try block is caught by its
\* `except Exception` and replaced by HTTPException(500)
HandlerError(code) == 500

OpFails(code, err, step) ==
    op' = [op EXCEPT !.pc = "done", !.code = code, !.status = err,
                     !.log = IF step = <<>> THEN @ ELSE Append(@, step)]

\* protect and the existence test
SiteOpBegin(kind, site_name, token) ==
    /\ entry = "agent_new"
    /\ op.pc \in {"idle", "done"}
    /\ runs < MaxRuns
    /\ runs' = runs + 1
    /\ LET started == [NoOp EXCEPT !.kind = kind, !.name = site_name, !.token = token]
       IN  IF ~protect(token, token)
           THEN op' = [started EXCEPT !.pc = "done", !.code = 401, !.status = "unauthorized"]
           ELSE IF ~SiteExists(fs[site_name]) \/ ~HasCompose(fs[site_name])
           THEN op' = [started EXCEPT !.pc = "done", !.code = HandlerError(404),
                                      !.status = "site_not_found"]
           ELSE op' = [started EXCEPT !.pc = "command"]
    /\ UNCHANGED <<call, entry, MYSQL_ROOT_PASS, fs, ctr, db, tasks, loop, nsecret, built>>

\* docker compose up -d / down / down -v in the site directory, with the
\* configured timeout; the exit code only fills the "error" field of the
\* response, and delete_site does not look at it at all
SiteOpCommand ==
    /\ op.pc = "command"
    /\ LET n == op.name
           cmd == IF op.kind = "start" THEN "up" ELSE "down"
           target == IF op.kind = "start" THEN "running"
                     ELSE IF ctr[n] = "none" THEN "none" ELSE "stopped"
       IN  \E out \in CmdOutcomes :
             /\ ~HasCompose(fs[n]) => out # "ok"
             /\ CASE out = "ok" -> ctr' = [ctr EXCEPT ![n] = target]
                  [] out = "fail" -> UNCHANGED ctr
                  [] out = "timeout" ->
                       \E c \in {ctr[n]} \cup (IF HasCompose(fs[n]) THEN {target} ELSE {}) :
                           ctr' = [ctr EXCEPT ![n] = c]
             /\ IF out = "timeout"
                THEN OpFails(HandlerError(500), "timeout", <<cmd, out>>)
                ELSE IF op.kind = "delete"
                THEN op' = [op EXCEPT !.pc = "rmtree", !.log = Append(@, <<cmd, out>>)]
                ELSE op' = [op EXCEPT !.pc = "done", !.code = 200, !.status = Reported(op.kind),
                                      !.log = Append(@, <<cmd, out>>)]
    /\ UNCHANGED <<call, entry, MYSQL_ROOT_PASS, fs, db, tasks, loop, nsecret, runs, built>>

\* shutil.rmtree(site_dir): the directory and everything in it, or an
\* exception that leaves it
DeleteRmtree ==
    /\ op.pc = "rmtree"
    /\ \E w \in WriteOutcomes :
          IF w = "ok"
          THEN /\ fs' = [fs EXCEPT ![op.name] = NoDir]
               /\ op' = [op EXCEPT !.pc = "done", !.code = 200, !.status = Reported("delete"),
                                   !.log = Append(@, <<"rmtree", "ok">>)]
          ELSE /\ UNCHANGED fs
               /\ OpFails(HandlerError(500), "rmtree_failed", <<"rmtree", "fail">>)
    /\ UNCHANGED <<call, entry, MYSQL_ROOT_PASS, ctr, db, tasks, loop, nsecret, runs, built>>

\* ------------------------------------ agent.py: start, stop, delete a site
\* The handlers of the MVP are coroutines without an await: each runs from
\* its first statement to its response on the event loop.  They take no
\* token, test only the directory, re-raise their own HTTPException, and
\* start and stop answer 500 when the command exits non-zero; delete does
\* not look at the exit code of down -v.
MvpSiteOp(kind, site_name) ==
    /\ entry = "agent"
    /\ loop = NoTask
    /\ runs < MaxRuns
    /\ runs' = runs + 1
    /\ LET started == [NoOp EXCEPT !.kind = kind, !.name = site_name, !.pc = "done"]
           cmd == IF kind = "start" THEN "up" ELSE "down"
           target == IF kind = "start" THEN "running"
                     ELSE IF ctr[site_name] = "none" THEN "none" ELSE "stopped"
       IN  IF ~SiteExists(fs[site_name])
           THEN /\ op' = [started EXCEPT !.code = 404, !.status = "site_not_found"]
                /\ UNCHANGED <<fs, ctr>>
           ELSE \E out \in {"ok", "fail"} :
                  /\ ~HasCompose(fs[site_name]) => out # "ok"
                  /\ ctr' = IF out = "ok" THEN [ctr EXCEPT ![site_name] = target] ELSE ctr
                  /\ IF kind = "delete"
                     THEN /\ fs' = [fs EXCEPT ![site_name] = NoDir]
                          /\ op' = [started EXCEPT !.code = 200, !.status = Reported(kind),
                                       !.log = <<<<cmd, out>>, <<"rmtree", "ok">>>>]
                     ELSE /\ UNCHANGED fs
                          /\ op' = [started EXCEPT
                                       !.code = IF out = "ok" THEN 200 ELSE 500,
                                       !.status = IF out = "ok" THEN Reported(kind) ELSE "error",
                                       !.log = <<<<cmd, out>>>>]
    /\ UNCHANGED <<call, entry, MYSQL_ROOT_PASS, db, tasks, loop, nsecret, built>>

\* ---------------------------------------------------------------- behaviour
Next ==
    \/ \E t \in Tasks, body \in Bodies, token \in Tokens : BuildBegin(t, body, token)
    \/ \E t \in Tasks : BuildClone(t)
    \/ \E t \in Tasks : BuildDetect(t)
    \/ \E t \in Tasks : BuildSetup(t)
    \/ \E t \in Tasks : ProvisionCall(t)
    \/ \E t \in Tasks : ProvisionSpawned(t)
    \/ \E t \in Tasks : ProvisionDone(t)
    \/ \E t \in Tasks : SetupLaravelEnv(t)
    \/ \E t \in Tasks : BuildInstall(t)
    \/ \E t \in Tasks : RenderSiteTemplates(t)
    \/ \E t \in Tasks : ComposeUp(t)
    \/ \E t \in Tasks : Return(t)
    \/ \E t \in Tasks, body \in Bodies, token \in Tokens : RedeployBegin(t, body, token)
    \/ \E t \in Tasks : RedeployDown(t)
    \/ \E t \in Tasks : RedeployPull(t)
    \/ \E t \in Tasks, n \in Names : MvpBuild(t, n)

Spec == Init /\ [][Next]_vars

\* ------------------------------------------- functions called on their own
\* The trees the detectors are called on: a path that is no directory, or a
\* directory with each manifest absent, unreadable or declaring some of the
\* dependencies the detectors look for.
Unreadable == [exists |-> TRUE, readable |-> FALSE, words |-> {}]
ComposerWords == {"laravel/framework", "inertiajs/inertia"}
PackageWords == {"next", "nuxt", "express", "next-auth"}
Trees ==
    {Manifest(FALSE, NoFile, NoFile, FALSE)}
        \cup {Manifest(TRUE, c, p, i) :
                 c \in {NoFile, Unreadable} \cup {File(w) : w \in SUBSET ComposerWords},
                 p \in {NoFile, Unreadable} \cup {File(w) : w \in SUBSET PackageWords},
                 i \in BOOLEAN}

\* The identifiers sanitize_filename is called on: the strings of at most
\* MaxIdent characters over a letter, the characters it replaces and the
\* characters that delimit an identifier or a statement in SQL.
\* (a TLA+ string cannot hold a lone backtick: that character is named.)
backtick == "backtick"
IdentChars == {"a", ".", "/", backtick, "'", ";", " "}
RECURSIVE Strings(_)
Strings(n) ==
    IF n = 0 THEN {<<>>}
    ELSE Strings(n - 1) \cup {Append(x, c) : x \in Strings(n - 1), c \in IdentChars}

Calls ==
    {[NoCall EXCEPT !.fn = f, !.arg = m] :
        f \in {"utils.detect_framework", "agent.detect_framework"}, m \in Trees}
      \cup {[NoCall EXCEPT !.fn = "sanitize_filename", !.arg = x] : x \in Strings(MaxIdent)}

CallsInit ==
    /\ entry = "agent_new"
    /\ MYSQL_ROOT_PASS = s_root
    /\ fs = [n \in Names |-> NoDir]
    /\ ctr = [n \in Names |-> "none"]
    /\ db = [schemas |-> {}, users |-> {}]
    /\ tasks = [t \in Tasks |-> IdleTask]
    /\ loop = NoTask
    /\ nsecret = 0
    /\ runs = 0
    /\ built = {}
    /\ op = NoOp
    /\ call \in Calls

Program == <<op, entry, MYSQL_ROOT_PASS, fs, ctr, db, tasks, loop, nsecret, runs, built>>

DetectFramework ==
    /\ call.fn = "utils.detect_framework" /\ ~call.returned
    /\ call' = [call EXCEPT !.returned = TRUE, !.ret = detect_framework(call.arg)]
    /\ UNCHANGED Program

MvpDetectFramework ==
    /\ call.fn = "agent.detect_framework" /\ ~call.returned
    /\ call' = [call EXCEPT !.returned = TRUE, !.ret = mvp_detect_framework(call.arg)]
    /\ UNCHANGED Program

\* provision_mysql's sanitization of db_name and db_user
SanitizeFilename ==
    /\ call.fn = "sanitize_filename" /\ ~call.returned
    /\ call' = [call EXCEPT !.returned = TRUE, !.ret = sanitize_filename(call.arg)]
    /\ UNCHANGED Program

CallsNext ==
    \/ DetectFramework
    \/ MvpDetectFramework
    \/ SanitizeFilename

CallsSpec == CallsInit /\ [][CallsNext]_vars

\* ------------------------------------- builds that share database credentials
\* POST /build for two sites with one db_name, db_user and db_pass, served
\* by the modular agent with the administrative credential configured
SharedBodies ==
    {[repo |-> "repo_laravel", domain |-> d, framework |-> None, php_version |-> None,
      db_name |-> s_custom, db_user |-> s_custom, db_pass |-> s_pw] : d \in SharedDomains}

SharedInit == Init /\ entry = "agent_new" /\ MYSQL_ROOT_PASS = s_root

SharedNext ==
    \/ \E t \in Tasks, body \in SharedBodies : BuildBegin(t, body, AGENT_TOKEN)
    \/ \E t \in Tasks : BuildClone(t)
    \/ \E t \in Tasks : BuildDetect(t)
    \/ \E t \in Tasks : BuildSetup(t)
    \/ \E t \in Tasks : ProvisionCall(t)
    \/ \E t \in Tasks : ProvisionSpawned(t)
    \/ \E t \in Tasks : ProvisionDone(t)
    \/ \E t \in Tasks : SetupLaravelEnv(t)
    \/ \E t \in Tasks : BuildInstall(t)
    \/ \E t \in Tasks : RenderSiteTemplates(t)
    \/ \E t \in Tasks : ComposeUp(t)
    \/ \E t \in Tasks : Return(t)

SharedSpec == SharedInit /\ [][SharedNext]_vars

\* --------------------------------- site operations beside the pipeline runs
\* Builds and redeploys of one site, with the start, stop and delete
\* requests of either program.
SiteBodies ==
    {[repo |-> "repo_laravel", domain |-> s_demo \o s_dot \o s_com, framework |-> "nextjs",
      php_version |-> None, db_name |-> <<>>, db_user |-> <<>>, db_pass |-> <<>>]}
SiteNames == {Split0(d) : d \in Domains}

SitesNext ==
    \/ \E t \in Tasks, body \in SiteBodies : BuildBegin(t, body, AGENT_TOKEN)
    \/ \E t \in Tasks : BuildClone(t)
    \/ \E t \in Tasks : BuildDetect(t)
    \/ \E t \in Tasks : BuildSetup(t)
    \/ \E t \in Tasks : BuildInstall(t)
    \/ \E t \in Tasks : RenderSiteTemplates(t)
    \/ \E t \in Tasks : ComposeUp(t)
    \/ \E t \in Tasks : Return(t)
    \/ \E t \in Tasks, body \in SiteBodies : RedeployBegin(t, body, AGENT_TOKEN)
    \/ \E t \in Tasks : RedeployDown(t)
    \/ \E t \in Tasks : RedeployPull(t)
    \/ \E t \in Tasks, n \in SiteNames : MvpBuild(t, n)
    \/ \E kind \in SiteOps, n \in SiteNames, token \in Tokens : SiteOpBegin(kind, n, token)
    \/ SiteOpCommand
    \/ DeleteRmtree
    \/ \E kind \in SiteOps, n \in SiteNames : MvpSiteOp(kind, n)

SitesSpec == Init /\ [][SitesNext]_vars

\* ------------------------------------------------------------------ claims
StepNames(log) == [i \in 1..Len(log) |-> log[i][1]]
IsPrefix(a, b) == Len(a) <= Len(b) /\ a = SubSeq(b, 1, Len(a))
Authorized(t) == tasks[t].pc # "idle" /\ tasks[t].code # 401
Terminal(t) == tasks[t].pc = "done"

\* C1: a build request for a domain whose site directory already exists ends
\* with a conflict error and runs no step: no directory is created or
\* modified, no clone is attempted, no container command is issued.
C1_DuplicateBuildIsConflict ==
    \A t \in Tasks :
        (tasks[t].mode = "build" /\ Authorized(t) /\ tasks[t].existed)
            => /\ Terminal(t)
               /\ tasks[t].status = "failed"
               /\ tasks[t].error = "site_exists"
               /\ tasks[t].log = <<>>

\* C2: a redeploy request for a domain whose site directory does not exist
\* ends with "Site not found" in the step that accepts it: no step is run, and
\* directories, containers and the database are what they were.
C2_RedeployMissingSite ==
    [][\A t \in Tasks :
          (tasks[t].pc = "idle" /\ tasks'[t].mode = "redeploy" /\ tasks'[t].code # 401
             /\ ~tasks'[t].existed)
              => /\ tasks'[t].pc = "done"
                 /\ tasks'[t].status = "failed"
                 /\ tasks'[t].error = "site_not_found"
                 /\ tasks'[t].log = <<>>
                 /\ fs' = fs /\ ctr' = ctr /\ db' = db]_vars

C2_Witness ==
    \E t \in Tasks :
        /\ tasks[t].mode = "redeploy" /\ Terminal(t)
        /\ ~tasks[t].existed /\ tasks[t].error = "site_not_found"

\* C3: at most one build or redeploy run per site name is between its first
\* step and its terminal state.
C3_OneRunPerSite ==
    \A t, u \in Tasks :
        (t # u /\ tasks[t].status = "running" /\ tasks[u].status = "running")
            => tasks[t].app_name # tasks[u].app_name

ExternalCommands == {"clone", "install", "down", "pull", "up"}
AllCommandsOk(log) ==
    \A i \in 1..Len(log) : log[i][1] \in ExternalCommands => log[i][2] = "ok"

C5_RedeploySucceeds ==
    \A t \in Tasks :
        (tasks[t].mode = "redeploy" /\ Authorized(t) /\ Terminal(t)
           /\ tasks[t].req.domain \in built /\ AllCommandsOk(tasks[t].log))
            => tasks[t].status = "succeeded"

\* C6: when database provisioning fails in a build, the run ends failed at
\* that step: no configuration is written, nothing is installed, no container
\* is started afterwards.
C6_ProvisioningFailureIsFatal ==
    \A t \in Tasks :
        (tasks[t].mode = "build" /\ tasks[t].prov = "false")
            => /\ Terminal(t)
               /\ tasks[t].status = "failed"
               /\ tasks[t].log[Len(tasks[t].log)][1] = "provision"

\* C7: a failed clone, a framework resolved to unknown with no override and a
\* failed container start each end the run as failed, and are the last step
\* the run executes.
FatalEntry(e) ==
    \/ e[1] = "clone" /\ e[2] # "ok"
    \/ e = <<"resolve", "unknown">>
    \/ e[1] = "up" /\ e[2] # "ok"

C7_FatalStepEndsRun ==
    \A t \in Tasks : \A i \in 1..Len(tasks[t].log) :
        FatalEntry(tasks[t].log[i])
            => /\ i = Len(tasks[t].log)
               /\ Terminal(t)
               /\ tasks[t].status = "failed"

C7_Witness ==
    \E t \in Tasks :
        /\ tasks[t].mode = "build" /\ Terminal(t) /\ tasks[t].status = "failed"
        /\ Len(tasks[t].log) > 3
        /\ tasks[t].log[Len(tasks[t].log)] = <<"up", "fail">>

\* C8: a failure of a soft step (dependency install of a build, source pull of
\* a redeploy), by non-zero exit or by timeout, never ends the run: the step
\* after it is executed.
SoftFailure(e) == e[1] \in {"install", "pull"} /\ e[2] # "ok"

C8_SoftFailureGoesOn ==
    \A t \in Tasks : \A i \in 1..Len(tasks[t].log) :
        SoftFailure(tasks[t].log[i]) => ~(Terminal(t) /\ i = Len(tasks[t].log))

\* C9 as stated: in a build the steps occur in the order fetch, resolve,
\* provision, write configuration, install, start; the install never precedes
\* a write of configuration.
SpecRank(step) ==
    CASE step = "mkdir" -> 0
      [] step = "clone" -> 1
      [] step = "resolve" -> 2
      [] step = "provision" -> 3
      [] step \in {"write_env", "render"} -> 4
      [] step = "install" -> 5
      [] OTHER -> 6

ExpectedBuild(f) ==
    <<"mkdir", "clone", "resolve">>
        \o (IF f \in {"laravel", "laravel-inertia"} THEN <<"provision", "write_env", "install">>
            ELSE IF f \in {"nextjs", "nuxt", "nodeapi"} THEN <<"install">>
            ELSE <<>>)
        \o <<"render", "up">>

ExpectedRedeploy == <<"down", "pull", "render", "up">>

C10_RedeployOrder ==
    \A t \in Tasks :
        tasks[t].mode = "redeploy" => IsPrefix(StepNames(tasks[t].log), ExpectedRedeploy)

C10_Witness ==
    \E t \in Tasks :
        /\ tasks[t].mode = "redeploy" /\ Terminal(t)
        /\ tasks[t].log = <<<<"down", "ok">>, <<"pull", "ok">>, <<"render", "attribute_error">>>>

\* C11: accepting a build or redeploy is decoupled from running it: while the
\* run is between its first step and its terminal state the accepting request
\* has already been answered (code is the status of the response, 0 while none
\* has been sent), and a run that executed a step and failed is not answered
\* with the failure.
C11_AcceptDecoupledFromRun ==
    \A t \in Tasks :
        /\ tasks[t].status = "running" => tasks[t].code # 0
        /\ (Terminal(t) /\ tasks[t].status = "failed" /\ tasks[t].log # <<>>)
              => tasks[t].code # 500

\* C12: no pipeline step (directory creation, clone, provisioning, render,
\* container start) is executed for a build request that
\* validate_build_request rejects: invalid domain or repository URL,
\* framework override or runtime version outside the accepted sets.
C12_InvalidRequestRunsNoStep ==
    \A t \in Tasks :
        (entry = "agent_new" /\ tasks[t].mode = "build" /\ Authorized(t)
           /\ ~validate_build_request(tasks[t].req))
            => tasks[t].log = <<>>

\* C13: detect returns the variant of the first matching rule: a PHP
\* dependency manifest present gives laravel-inertia when it declares the
\* inertia dependency and laravel otherwise; else a JavaScript manifest
\* declaring next gives nextjs, declaring nuxt gives nuxt, declaring an
\* HTTP-server framework gives nodeapi; else an index.html gives static; else
\* unknown.
Declares(file, dep) == dep \in file.words
FirstMatchingRule(m) ==
    IF m.composer.exists
    THEN IF Declares(m.composer, "inertiajs/inertia") THEN "laravel-inertia" ELSE "laravel"
    ELSE IF m.package.exists /\ Declares(m.package, "next") THEN "nextjs"
    ELSE IF m.package.exists /\ Declares(m.package, "nuxt") THEN "nuxt"
    ELSE IF m.package.exists
            /\ (Declares(m.package, "express") \/ Declares(m.package, "fastify")) THEN "nodeapi"
    ELSE IF m.index THEN "static"
    ELSE "unknown"

Detectors == {"utils.detect_framework", "agent.detect_framework"}

C13_DetectFirstMatchingRule ==
    (call.fn \in Detectors /\ call.returned)
        => call.ret = FirstMatchingRule(call.arg)

\* C14: detect is total: on every path (missing, not a directory, with
\* missing or unreadable manifests) it returns one of the seven variants and
\* never raises, and an unreadable manifest counts as one that declares no
\* dependency: the result is the one for the same tree with that manifest
\* readable and empty.
Variants == valid_frameworks \cup {"unknown"}
AsEmpty(file) == IF file.exists /\ ~file.readable THEN File({}) ELSE file
Detector(fn, m) ==
    IF fn = "utils.detect_framework" THEN detect_framework(m) ELSE mvp_detect_framework(m)

C14_DetectIsTotal ==
    (call.fn \in Detectors /\ call.returned)
        => /\ call.ret \in Variants
           /\ call.ret = Detector(call.fn, [call.arg EXCEPT !.composer = AsEmpty(@),
                                                            !.package = AsEmpty(@)])

\* C15: when the shared database service does not report the running state,
\* provision returns failure without issuing the administrative command, and
\* schemas and users are what they were.
C15_NotRunningFailsFast ==
    [][\A t \in Tasks :
          (tasks[t].pc = "provision" /\ tasks'[t].seen \notin {"none", "running"})
              => /\ tasks'[t].prov = "false"
                 /\ tasks'[t].pc = "env"
                 /\ db' = db]_vars

C15_Witness ==
    \E t \in Tasks :
        /\ tasks[t].seen = "exited" /\ tasks[t].prov = "false"
        /\ tasks[t].log[Len(tasks[t].log)] = <<"provision", "not_running">>

\* C16: with the shared database service running and answering, a call of
\* provision whose schema, user and password an earlier call has created
\* succeeds too and leaves the database as it was: that schema, and exactly
\* one user of that name.
Provisioned(d, db_name, db_user, db_pass) ==
    db_name \in d.schemas /\ <<db_user, db_pass>> \in d.users
ProvisionArgs(t) ==
    <<sanitize_filename(DbName(tasks[t].req, tasks[t].app_name)),
      sanitize_filename(DbUser(tasks[t].req, tasks[t].app_name)),
      DbPass(tasks[t].req)>>

C16_ProvisionIdempotent ==
    [][\A t \in Tasks :
          (/\ tasks[t].pc = "communicate" /\ tasks'[t].pc = "env"
           /\ tasks'[t].present
           /\ Provisioned(db, ProvisionArgs(t)[1], ProvisionArgs(t)[2], ProvisionArgs(t)[3])
           /\ tasks'[t].log[Len(tasks'[t].log)] # <<"provision", "fail">>)
              => /\ tasks'[t].prov = "true"
                 /\ db' = db
                 /\ Cardinality({u \in db'.users : u[1] = ProvisionArgs(t)[2]}) = 1]_vars

C16_Witness ==
    \E t \in Tasks :
        /\ tasks[t].present /\ tasks[t].prov = "true"
        /\ Cardinality(db.schemas) = 1 /\ Cardinality(db.users) = 1

\* C17: the identifier provision interpolates into the administrative SQL
\* holds only characters of a safe identifier set: no backtick, quote,
\* semicolon or whitespace of the input is left by the sanitization.
UnsafeInSql == {backtick, "'", "\"", ";", " "}

C17_SanitizedIdentifierIsSafe ==
    (call.fn = "sanitize_filename" /\ call.returned)
        => \A i \in 1..Len(call.ret) : call.ret[i] \notin UnsafeInSql

\* C18: rendering a site's template set is all-or-nothing on disk: when the
\* render step of a run fails (unresolvable reference, missing context key,
\* unsupported runtime version), that step has written or overwritten none of
\* the set's output files.
C18_RenderAllOrNothing ==
    [][\A t \in Tasks :
          (tasks[t].pc = "render" /\ tasks'[t].status = "failed")
              => /\ fs'[tasks[t].app_name].tpl = fs[tasks[t].app_name].tpl
                 /\ fs'[tasks[t].app_name].compose = fs[tasks[t].app_name].compose]_vars

\* C19: every build and redeploy run reaches a terminal state even when an
\* external command never returns.  A run that is not terminal always has a
\* step to take once the event loop is its own or free: none waits for
\* something that will not happen.
RunStep(t) ==
    \/ BuildClone(t) \/ BuildDetect(t) \/ BuildSetup(t)
    \/ ProvisionCall(t) \/ ProvisionSpawned(t) \/ ProvisionDone(t)
    \/ SetupLaravelEnv(t) \/ BuildInstall(t) \/ RenderSiteTemplates(t) \/ ComposeUp(t)
    \/ RedeployDown(t) \/ RedeployPull(t)

C19_EveryRunGoesOn ==
    \A t \in Tasks :
        (tasks[t].status = "running" /\ loop \in {NoTask, t}) => ENABLED RunStep(t)

\* C20: whenever a build run ends failed, the container group of its site has
\* no running container; whenever a redeploy run ends failed after its first
\* step, the containers of its site are stopped.
C20_FailedRunLeavesNothingRunning ==
    \A t \in Tasks :
        (entry = "agent_new" /\ Terminal(t) /\ tasks[t].status = "failed"
           /\ tasks[t].log # <<>>)
            => ctr[tasks[t].app_name] # "running"

\* C21: when delete of an existing site returns success, no container of the
\* site is running and its directory is gone; and the directory is never
\* removed while containers of the site are running.
OpArrives == runs' = runs + 1 /\ tasks' = tasks
Answered(kind, code) ==
    (op.pc # "done" \/ OpArrives) /\ op'.pc = "done" /\ op'.kind = kind /\ op'.code = code

C21_DeleteTearsDownThenRemoves ==
    [][/\ Answered("delete", 200)
          => ctr'[op'.name] # "running" /\ ~fs'[op'.name].exists
       /\ \A n \in Names :
             (fs[n].exists /\ ~fs'[n].exists) => ctr'[n] # "running"]_vars

\* C22: start, stop and delete on a site name that has no site directory are
\* answered with a not-found error (404, not the 500 of an internal failure)
\* and run no container command and change no file.
C22_MissingSiteIsNotFound ==
    [][(OpArrives /\ op'.kind \in SiteOps /\ ~fs[op'.name].exists)
          => /\ op'.pc = "done" /\ op'.code = 404
             /\ op'.log = <<>> /\ fs' = fs /\ ctr' = ctr]_vars

\* C23: while a build or redeploy run for a site is between its first step
\* and its terminal state, no operation that is not a step of a run (delete,
\* start, stop) changes the site's directory or its container group; a
\* delete does not remove the directory under the running pipeline.  (Two
\* runs for one site are C3.)
C23_NoSiteOperationDuringRun ==
    [][\A t \in Tasks :
          (tasks[t].status = "running" /\ tasks' = tasks)
              => /\ fs'[tasks[t].app_name] = fs[tasks[t].app_name]
                 /\ ctr'[tasks[t].app_name] = ctr[tasks[t].app_name]]_vars

\* C24: a site comes into existence only through a successful build: when a
\* build run for a name that had no directory ends failed, no directory for
\* that name remains.
C24_FailedBuildLeavesNoSite ==
    \A t \in Tasks :
        (tasks[t].mode = "build" /\ Terminal(t) /\ tasks[t].status = "failed"
           /\ tasks[t].log # <<>> /\ ~tasks[t].existed)
            => ~fs[tasks[t].app_name].exists

\* C25: when a build or redeploy of the modular agent reports success, or a
\* start request is answered "started", the container-start command of that
\* request has succeeded and the site's container group is running.
LastOf(log) == log[Len(log)]

C25_ReportedStartedIsRunning ==
    [][/\ \A t \in Tasks :
             (entry = "agent_new" /\ tasks[t].status # "succeeded"
                /\ tasks'[t].status = "succeeded")
                 => /\ LastOf(tasks'[t].log) = <<"up", "ok">>
                    /\ ctr'[tasks'[t].app_name] = "running"
       /\ Answered("start", 200)
             => /\ LastOf(op'.log) = <<"up", "ok">>
                /\ ctr'[op'.name] = "running"]_vars

\* C26: with an agent token configured, a start, stop or delete request of
\* the modular agent that carries another token ends unauthorized (401)
\* without running a command or touching the site.
C26_MismatchedTokenIsUnauthorized ==
    (entry = "agent_new" /\ op.kind \in SiteOps /\ op.token # AGENT_TOKEN)
        => /\ op.pc = "done"
           /\ op.code = 401
           /\ op.log = <<>>

\* C27: in the modular agent, which names a site by its domain, distinct
\* domains are distinct sites: a build never works in the
\* directory of a site that was deployed for another domain, also when the
\* two domains share their leftmost label, and a redeploy for a domain that
\* was never built reports that the site was not found before any command.
C27_DistinctDomainsDistinctSites ==
    \A t \in Tasks :
        /\ (entry = "agent_new" /\ tasks[t].mode = "build" /\ tasks[t].log # <<>>)
              => \A d \in built :
                    d # tasks[t].req.domain => Split0(d) # tasks[t].app_name
        /\ (tasks[t].mode = "redeploy" /\ Authorized(t)
              /\ tasks[t].req.domain \notin built)
              => /\ tasks[t].error = "site_not_found"
                 /\ tasks[t].log = <<>>

\* C28: in the modular agent the framework a run uses is one of the six
\* known ones: no run is at, or has gone through, the template rendering or
\* the container start with an unknown, absent or unlisted framework.
RenderOrStart == {"render", "up"}
ReachedRenderOrStart(t) ==
    \/ tasks[t].pc \in RenderOrStart
    \/ \E i \in 1..Len(tasks[t].log) : tasks[t].log[i][1] \in RenderOrStart

C28_FrameworkIsKnownAtRender ==
    \A t \in Tasks :
        (entry = "agent_new" /\ ReachedRenderOrStart(t))
            => /\ HasAttr(tasks[t].req, "framework")
               /\ tasks[t].req.framework \in valid_frameworks

\* C29: a build that has written both the .env file and the rendered
\* templates of its site has generated one application secret, and both
\* carry that same value.
Logged(t, step, outcome) ==
    \E i \in 1..Len(tasks[t].log) : tasks[t].log[i] = <<step, outcome>>

C29_OneApplicationSecret ==
    \A t \in Tasks :
        (tasks[t].mode = "build" /\ Logged(t, "write_env", "ok")
           /\ Logged(t, "render", "ok"))
            => fs[tasks[t].app_name].env.key = fs[tasks[t].app_name].tpl.key

\* C30: a run one of whose configuration files (.env, rendered templates)
\* could not be written does not go on to start containers and does not
\* end succeeded.
ConfigWrites == {"write_env", "render"}
WriteFailed(t) == \E step \in ConfigWrites : Logged(t, step, "fail")

C30_FailedWriteIsNotSuccess ==
    \A t \in Tasks :
        (entry = "agent_new" /\ WriteFailed(t))
            => /\ tasks[t].status # "succeeded"
               /\ \A i \in 1..Len(tasks[t].log) : tasks[t].log[i][1] # "up"

====
